---- MODULE Spec2Model ----
(***************************************************************************)
(* Model of filter_high_apy_pools.py: the loader, the liquidity/rewards    *)
(* index, the scorer and filter, the sort, the diagnostic summary, and     *)
(* main with its report and persist steps.                                 *)
(*                                                                         *)
(* Representation:                                                         *)
(*   - a text string is a sequence of one-character strings, so that       *)
(*     str.lower() and the substring test are computed, not assumed;       *)
(*   - a JSON object is a function whose DOMAIN is the set of keys present,*)
(*     so dict.get(key, default) is Get(d, key, default);                  *)
(*   - the gauges mapping is the sequence of its (name, record) items in   *)
(*     document order, names pairwise distinct;                            *)
(*   - a nullable number is <<>> for null and <<n>> for the number n;      *)
(*   - numbers are integers (the float arithmetic of the script is only    *)
(*     addition, comparison and max).                                      *)
(***************************************************************************)
EXTENDS Integers, Sequences, FiniteSets, TLC

VARIABLES gaugesFile, poolsFile, entry, min_apy, min_usd_total, pc, opened,
          data, all_pools_data, pool_usd_lookup, pool_extra_rewards_lookup,
          high_apy_pools, all_pools_with_apy, exc, result, stdout,
          outputFile, exitStatus

vars == <<gaugesFile, poolsFile, entry, min_apy, min_usd_total, pc, opened,
          data, all_pools_data, pool_usd_lookup, pool_extra_rewards_lookup,
          high_apy_pools, all_pools_with_apy, exc, result, stdout,
          outputFile, exitStatus>>

(***************************************************************************)
(* Bounds of the model.                                                    *)
(***************************************************************************)
MaxGauges == 2
MaxPools == 2
LongLen == 11

(***************************************************************************)
(* Program constants.                                                      *)
(***************************************************************************)
DefaultMinApy == 10
DefaultMinUsdTotal == 1000000
MainMinApy == 7
MainMinUsdTotal == 5000000
SummaryLimit == 10

(***************************************************************************)
(* Python values.                                                          *)
(***************************************************************************)
None == <<>>
Num(n) == <<n>>
EmptyDict == [k \in {} |-> 0]
Get(d, k, default) == IF k \in DOMAIN d THEN d[k] ELSE default
Put(d, k, v) == [j \in DOMAIN d \cup {k} |-> IF j = k THEN v ELSE d[j]]
Max(a, b) == IF a >= b THEN a ELSE b
Min(a, b) == IF a <= b THEN a ELSE b

UpperToLower ==
  [A |-> "a", B |-> "b", C |-> "c", E |-> "e", H |-> "h", T |-> "t"]
LowerChar(c) == IF c \in DOMAIN UpperToLower THEN UpperToLower[c] ELSE c
Lower(s) == [i \in 1..Len(s) |-> LowerChar(s[i])]
Contains(s, sub) ==
  \E i \in 0..(Len(s) - Len(sub)) : SubSeq(s, i + 1, i + Len(sub)) = sub

(***************************************************************************)
(* Input documents.                                                        *)
(***************************************************************************)
AddrLowerA == <<"0", "x", "a", "a">>
AddrUpperA == <<"0", "x", "A", "A">>
AddrB == <<"0", "x", "b", "b">>
AddrC == <<"0", "x", "c", "c">>

PoolChoices == <<
  [address |-> AddrLowerA, usdTotal |-> 6000000,
   gaugeRewards |-> <<[apy |-> 3]>>],
  [address |-> AddrUpperA, usdTotal |-> 4000000],
  [address |-> AddrB,
   gaugeRewards |-> <<[apy |-> 2], [symbol |-> <<"c">>]>>] >>

StemPlain == <<"u", "s", "d">>
StemBtc == <<"w", "B", "t", "C">>
StemEth == <<"s", "t", "E", "T", "H">>
Suffix == <<"0", "1", "2", "3", "4", "5", "6", "7", "8", "9", "x", "y", "z">>

GaugeChoices == <<
  [stem |-> StemPlain,
   info |-> [isPool |-> TRUE, type |-> "stable", hasNoCrv |-> FALSE,
             swap |-> AddrUpperA, gaugeCrvApy |-> <<Num(5), Num(6)>>]],
  [stem |-> StemPlain,
   info |-> [isPool |-> TRUE, type |-> "stable",
             swap |-> AddrUpperA, gaugeCrvApy |-> <<None, Num(12)>>]],
  [stem |-> StemPlain,
   info |-> [isPool |-> TRUE, type |-> "stable", hasNoCrv |-> FALSE,
             swap |-> AddrB, gaugeCrvApy |-> <<Num(7), Num(7)>>]],
  [stem |-> StemPlain,
   info |-> [isPool |-> TRUE, type |-> "stable", hasNoCrv |-> FALSE,
             swap |-> AddrC, gaugeCrvApy |-> <<Num(12), Num(5)>>]],
  [stem |-> StemBtc,
   info |-> [isPool |-> TRUE, type |-> "stable", hasNoCrv |-> FALSE,
             swap |-> AddrUpperA, gaugeCrvApy |-> <<Num(5), Num(6)>>]],
  [stem |-> StemEth,
   info |-> [isPool |-> TRUE, type |-> "stable", hasNoCrv |-> FALSE,
             swap |-> AddrUpperA, gaugeCrvApy |-> <<Num(5), Num(6)>>]],
  [stem |-> StemPlain,
   info |-> [type |-> "stable", hasNoCrv |-> FALSE,
             swap |-> AddrUpperA, gaugeCrvApy |-> <<Num(5), Num(6)>>]],
  [stem |-> StemPlain,
   info |-> [isPool |-> TRUE, type |-> "stable", hasNoCrv |-> TRUE,
             swap |-> AddrUpperA, gaugeCrvApy |-> <<Num(5), Num(6)>>]],
  [stem |-> StemPlain,
   info |-> [isPool |-> TRUE, type |-> "crypto", hasNoCrv |-> FALSE,
             swap |-> AddrUpperA, gaugeCrvApy |-> <<Num(5), Num(6)>>]],
  [stem |-> StemPlain,
   info |-> [isPool |-> TRUE, type |-> "stable", hasNoCrv |-> FALSE,
             swap |-> AddrUpperA, gaugeCrvApy |-> <<Num(9)>>]],
  [stem |-> StemPlain,
   info |-> [isPool |-> TRUE, type |-> "stable", hasNoCrv |-> FALSE,
             swap |-> AddrB, gaugeCrvApy |-> <<None, None>>]] >>

\* the items of a gauges mapping: the i-th key is the chosen stem followed
\* by a position suffix, which keeps the keys of one mapping distinct
GaugeItems(choice) ==
  [i \in 1..Len(choice) |->
     <<GaugeChoices[choice[i]].stem \o <<Suffix[i]>>,
       GaugeChoices[choice[i]].info>>]
PoolList(choice) == [i \in 1..Len(choice) |-> PoolChoices[choice[i]]]

SeqsUpTo(S, n) == UNION {[1..k -> S] : k \in 0..n}

JsonFile(doc) == [exists |-> TRUE, valid |-> TRUE, json |-> doc]
MissingFile == [exists |-> FALSE, valid |-> FALSE, json |-> EmptyDict]
BadJsonFile == [exists |-> TRUE, valid |-> FALSE, json |-> EmptyDict]

GoodGaugeFiles(choices) ==
  {JsonFile([success |-> TRUE, data |-> GaugeItems(c)]) : c \in choices}
BadGaugeFiles ==
  {MissingFile, BadJsonFile,
   JsonFile([success |-> FALSE, data |-> GaugeItems(<<1>>)]),
   JsonFile([data |-> GaugeItems(<<1>>)]),
   JsonFile([success |-> TRUE])}
GoodPoolFiles(choices) ==
  {JsonFile([success |-> TRUE, data |-> [poolData |-> PoolList(c)]])
     : c \in choices}
BadPoolFiles ==
  {MissingFile, BadJsonFile,
   JsonFile([success |-> FALSE, data |-> [poolData |-> PoolList(<<1>>)]]),
   JsonFile([data |-> [poolData |-> PoolList(<<1>>)]]),
   JsonFile([success |-> TRUE]),
   JsonFile([success |-> TRUE, data |-> EmptyDict])}

CallGaugeFiles ==
  GoodGaugeFiles(SeqsUpTo(1..Len(GaugeChoices), MaxGauges)) \cup BadGaugeFiles
CallPoolFiles ==
  GoodPoolFiles(SeqsUpTo(1..Len(PoolChoices), MaxPools)) \cup BadPoolFiles
\* long documents: LongLen entries, all the first choice except at most one,
\* which is the second choice (a null in its gaugeCrvApy pair)
LongChoices ==
  {[i \in 1..LongLen |-> IF i = p THEN 2 ELSE 1] : p \in 0..LongLen}
MainGaugeFiles ==
  GoodGaugeFiles(SeqsUpTo({1, 2}, MaxGauges) \cup LongChoices)
    \cup BadGaugeFiles
MainPoolFiles == GoodPoolFiles({<<>>, <<1>>}) \cup BadPoolFiles
CallMinApy == {0, MainMinApy}
CallMinUsdTotal == {0, MainMinUsdTotal}

(***************************************************************************)
(* Liquidity/rewards index (lines 40-55).                                  *)
(***************************************************************************)
RECURSIVE SumApy(_, _)
SumApy(gauge_rewards, n) ==
  IF n = 0 THEN 0
  ELSE SumApy(gauge_rewards, n - 1) + Get(gauge_rewards[n], "apy", 0)

ExtraApy(pool) ==
  LET gauge_rewards == Get(pool, "gaugeRewards", <<>>)
  IN SumApy(gauge_rewards, Len(gauge_rewards))

\* the rewards lookup assigned only under "if gauge_rewards:"
IndexPoolStaleExtra(lookups, pool) ==
  LET address == Lower(Get(pool, "address", <<>>))
  IN [usd |-> Put(lookups.usd, address, Get(pool, "usdTotal", 0)),
      extra |-> IF Get(pool, "gaugeRewards", <<>>) # <<>>
                THEN Put(lookups.extra, address, ExtraApy(pool))
                ELSE lookups.extra]
\* one iteration of the loop over poolData: both lookups are assigned
IndexPool(lookups, pool) ==
  LET address == Lower(Get(pool, "address", <<>>))
  IN [usd |-> Put(lookups.usd, address, Get(pool, "usdTotal", 0)),
      extra |-> Put(lookups.extra, address, ExtraApy(pool))]

RECURSIVE IndexPools(_, _)
IndexPools(poolData, n) ==
  IF n = 0 THEN [usd |-> EmptyDict, extra |-> EmptyDict]
  ELSE IndexPool(IndexPools(poolData, n - 1), poolData[n])

(***************************************************************************)
(* Scorer and filter (lines 61-121).                                       *)
(***************************************************************************)
NotPool(pool_info) == ~Get(pool_info, "isPool", FALSE)
BadApyShape(gauge_crv_apy) == gauge_crv_apy = <<>> \/ Len(gauge_crv_apy) # 2
HasNoCrv(pool_info) == Get(pool_info, "hasNoCrv", FALSE)
NotStable(pool_info) == Get(pool_info, "type", "") # "stable"
\* the "eth" test left out
NameExcludedBtcOnly(pool_name) ==
  Contains(Lower(pool_name), <<"b", "t", "c">>)
NameExcluded(pool_name) ==
  LET pool_name_lower == Lower(pool_name)
  IN Contains(pool_name_lower, <<"b", "t", "c">>)
       \/ Contains(pool_name_lower, <<"e", "t", "h">>)
PoolAddress(pool_info) == Lower(Get(pool_info, "swap", <<>>))
\* the comparison reversed
UsdAbove(usd_total, threshold) == usd_total > threshold
UsdBelow(usd_total, threshold) == usd_total < threshold
BaseApy(v) == IF v # None THEN v[1] ELSE 0
\* the extra rewards left out of the total
TotalApyNoExtra(v, extra_apy) == BaseApy(v)
TotalApy(v, extra_apy) == BaseApy(v) + extra_apy
\* >= in place of >
ApyAboveOrEqual(total_apy_0, total_apy_1, threshold) ==
  total_apy_0 >= threshold \/ total_apy_1 >= threshold
ApyAbove(total_apy_0, total_apy_1, threshold) ==
  total_apy_0 > threshold \/ total_apy_1 > threshold
NonZeroApy(total_apy_0, total_apy_1) == total_apy_0 > 0 \/ total_apy_1 > 0

PoolEntry(pool_name, pool_info, gauge_crv_apy, extra_apy, t0, t1, usd_total) ==
  [name |-> pool_name, pool_info |-> pool_info,
   gaugeCrvApy |-> gauge_crv_apy, extra_rewards_apy |-> extra_apy,
   total_apy_range |-> <<t0, t1>>, max_apy |-> Max(t0, t1),
   usd_total |-> usd_total]
DiagEntry(pool_name, pool_info, gauge_crv_apy, extra_apy) ==
  [name |-> pool_name, gaugeCrvApy |-> gauge_crv_apy,
   extra_rewards_apy |-> extra_apy,
   hasNoCrv |-> Get(pool_info, "hasNoCrv", FALSE)]

\* one iteration of the loop over the gauges mapping
ScorePool(lists, item, usd_lookup, extra_lookup, minApy, minUsd) ==
  LET pool_name == item[1]
      pool_info == item[2]
      gauge_crv_apy == Get(pool_info, "gaugeCrvApy", None)
      pool_address == PoolAddress(pool_info)
      usd_total == Get(usd_lookup, pool_address, 0)
      extra_apy == Get(extra_lookup, pool_address, 0)
      t0 == TotalApy(gauge_crv_apy[1], extra_apy)
      t1 == TotalApy(gauge_crv_apy[2], extra_apy)
  IN IF NotPool(pool_info) THEN lists
     ELSE IF BadApyShape(gauge_crv_apy) THEN lists
     ELSE IF HasNoCrv(pool_info) THEN lists
     ELSE IF NotStable(pool_info) THEN lists
     ELSE IF NameExcluded(pool_name) THEN lists
     ELSE IF UsdBelow(usd_total, minUsd) THEN lists
     ELSE [high |->
             IF ApyAbove(t0, t1, minApy)
             THEN Append(lists.high,
                         PoolEntry(pool_name, pool_info, gauge_crv_apy,
                                   extra_apy, t0, t1, usd_total))
             ELSE lists.high,
           diag |->
             IF NonZeroApy(t0, t1)
             THEN Append(lists.diag,
                         DiagEntry(pool_name, pool_info, gauge_crv_apy,
                                   extra_apy))
             ELSE lists.diag]

RECURSIVE ScorePools(_, _, _, _, _, _)
ScorePools(pools_data, n, usd_lookup, extra_lookup, minApy, minUsd) ==
  IF n = 0 THEN [high |-> <<>>, diag |-> <<>>]
  ELSE ScorePool(ScorePools(pools_data, n - 1, usd_lookup, extra_lookup,
                            minApy, minUsd),
                 pools_data[n], usd_lookup, extra_lookup, minApy, minUsd)

(***************************************************************************)
(* list.sort(key = max_apy, reverse = True) (line 124): a stable sort,     *)
(* elements of equal key keep their order.                                 *)
(***************************************************************************)
RECURSIVE InsertDesc(_, _)
InsertDesc(sorted, e) ==
  IF sorted = <<>> THEN <<e>>
  ELSE IF Head(sorted).max_apy >= e.max_apy
       THEN <<Head(sorted)>> \o InsertDesc(Tail(sorted), e)
       ELSE <<e>> \o sorted

RECURSIVE SortNFirst(_, _)
SortNFirst(pools, n) ==
  IF n = 0 THEN <<>> ELSE InsertDesc(SortNFirst(pools, n - 1), pools[n])

SortByMaxApyDesc(pools) == SortNFirst(pools, Len(pools))

(***************************************************************************)
(* Formatting with :.2f raises TypeError on None (lines 132 and 166).      *)
(***************************************************************************)
FormatRaises(gauge_apy) == gauge_apy[1] = None \/ gauge_apy[2] = None
SummaryRaises(diag) ==
  \E i \in 1..Min(Len(diag), SummaryLimit) : FormatRaises(diag[i].gaugeCrvApy)
ReportRaises(pools) ==
  \E i \in 1..Len(pools) : FormatRaises(pools[i].gaugeCrvApy)

\* the success flag not tested
ValidStructureDataOnly(doc) == "data" \in DOMAIN doc
ValidStructure(doc) == Get(doc, "success", FALSE) /\ "data" \in DOMAIN doc

(***************************************************************************)
(* Initial states: the function is called directly with any thresholds, or *)
(* the script is run (main), which passes its own thresholds.              *)
(***************************************************************************)
InitLocals ==
  /\ opened = {}
  /\ data = EmptyDict
  /\ all_pools_data = EmptyDict
  /\ pool_usd_lookup = EmptyDict
  /\ pool_extra_rewards_lookup = EmptyDict
  /\ high_apy_pools = <<>>
  /\ all_pools_with_apy = <<>>
  /\ exc = "none"
  /\ result = <<>>
  /\ stdout = <<>>
  /\ outputFile = <<>>
  /\ exitStatus = -1

InitCall ==
  /\ entry = "call"
  /\ pc = "load_gauges"
  /\ gaugesFile \in CallGaugeFiles
  /\ poolsFile \in CallPoolFiles
  /\ min_apy \in CallMinApy
  /\ min_usd_total \in CallMinUsdTotal
  /\ InitLocals

InitMain ==
  /\ entry = "main"
  /\ pc = "main"
  /\ gaugesFile \in MainGaugeFiles
  /\ poolsFile \in MainPoolFiles
  /\ min_apy = DefaultMinApy
  /\ min_usd_total = DefaultMinUsdTotal
  /\ InitLocals

Init == InitCall \/ InitMain

(***************************************************************************)
(* filter_high_apy_pools                                                   *)
(***************************************************************************)
\* lines 186-194: main prints its banner and calls the function
MainCall ==
  /\ pc = "main"
  /\ min_apy' = MainMinApy
  /\ min_usd_total' = MainMinUsdTotal
  /\ stdout' = Append(stdout, "banner")
  /\ pc' = "load_gauges"
  /\ UNCHANGED <<gaugesFile, poolsFile, entry, opened, data, all_pools_data,
                 pool_usd_lookup, pool_extra_rewards_lookup, high_apy_pools,
                 all_pools_with_apy, exc, result, outputFile, exitStatus>>

\* lines 25-30
LoadGauges ==
  /\ pc = "load_gauges"
  /\ IF ~gaugesFile.exists
     THEN /\ exc' = "FileNotFoundError"
          /\ pc' = "except"
          /\ UNCHANGED <<opened, data, result, stdout>>
     ELSE IF ~gaugesFile.valid
     THEN /\ opened' = opened \cup {"gauges"}
          /\ exc' = "JSONDecodeError"
          /\ pc' = "except"
          /\ UNCHANGED <<data, result, stdout>>
     ELSE IF ~ValidStructure(gaugesFile.json)
     THEN /\ opened' = opened \cup {"gauges"}
          /\ data' = gaugesFile.json
          /\ stdout' = Append(stdout, "err_gauges_structure")
          /\ result' = <<>>
          /\ pc' = "returned"
          /\ UNCHANGED exc
     ELSE /\ opened' = opened \cup {"gauges"}
          /\ data' = gaugesFile.json
          /\ pc' = "load_pools"
          /\ UNCHANGED <<exc, result, stdout>>
  /\ UNCHANGED <<gaugesFile, poolsFile, entry, min_apy, min_usd_total,
                 all_pools_data, pool_usd_lookup, pool_extra_rewards_lookup,
                 high_apy_pools, all_pools_with_apy, outputFile, exitStatus>>

\* lines 33-38
LoadPools ==
  /\ pc = "load_pools"
  /\ IF ~poolsFile.exists
     THEN /\ exc' = "FileNotFoundError"
          /\ pc' = "except"
          /\ UNCHANGED <<opened, all_pools_data, result, stdout>>
     ELSE IF ~poolsFile.valid
     THEN /\ opened' = opened \cup {"pools"}
          /\ exc' = "JSONDecodeError"
          /\ pc' = "except"
          /\ UNCHANGED <<all_pools_data, result, stdout>>
     ELSE IF ~ValidStructure(poolsFile.json)
     THEN /\ opened' = opened \cup {"pools"}
          /\ all_pools_data' = poolsFile.json
          /\ stdout' = Append(stdout, "err_pools_structure")
          /\ result' = <<>>
          /\ pc' = "returned"
          /\ UNCHANGED exc
     ELSE /\ opened' = opened \cup {"pools"}
          /\ all_pools_data' = poolsFile.json
          /\ pc' = "build_lookups"
          /\ UNCHANGED <<exc, result, stdout>>
  /\ UNCHANGED <<gaugesFile, poolsFile, entry, min_apy, min_usd_total, data,
                 pool_usd_lookup, pool_extra_rewards_lookup, high_apy_pools,
                 all_pools_with_apy, outputFile, exitStatus>>

\* lines 41-55; all_pools_data['data']['poolData'] raises KeyError when the
\* key is absent
BuildLookups ==
  /\ pc = "build_lookups"
  /\ IF "poolData" \notin DOMAIN all_pools_data.data
     THEN /\ exc' = "KeyError"
          /\ pc' = "except"
          /\ UNCHANGED <<pool_usd_lookup, pool_extra_rewards_lookup>>
     ELSE LET poolData == all_pools_data.data.poolData
              lookups == IndexPools(poolData, Len(poolData))
          IN /\ pool_usd_lookup' = lookups.usd
             /\ pool_extra_rewards_lookup' = lookups.extra
             /\ pc' = "score"
             /\ UNCHANGED exc
  /\ UNCHANGED <<gaugesFile, poolsFile, entry, min_apy, min_usd_total, opened,
                 data, all_pools_data, high_apy_pools, all_pools_with_apy,
                 result, stdout, outputFile, exitStatus>>

\* lines 57-121
ScoreAll ==
  /\ pc = "score"
  /\ LET pools_data == data.data
         lists == ScorePools(pools_data, Len(pools_data), pool_usd_lookup,
                             pool_extra_rewards_lookup, min_apy, min_usd_total)
     IN /\ high_apy_pools' = lists.high
        /\ all_pools_with_apy' = lists.diag
  /\ pc' = "sort"
  /\ UNCHANGED <<gaugesFile, poolsFile, entry, min_apy, min_usd_total, opened,
                 data, all_pools_data, pool_usd_lookup,
                 pool_extra_rewards_lookup, exc, result, stdout, outputFile,
                 exitStatus>>

\* line 124
SortPools ==
  /\ pc = "sort"
  /\ high_apy_pools' = SortByMaxApyDesc(high_apy_pools)
  /\ pc' = "summary"
  /\ UNCHANGED <<gaugesFile, poolsFile, entry, min_apy, min_usd_total, opened,
                 data, all_pools_data, pool_usd_lookup,
                 pool_extra_rewards_lookup, all_pools_with_apy, exc, result,
                 stdout, outputFile, exitStatus>>

\* lines 127-136
PrintSummary ==
  /\ pc = "summary"
  /\ IF all_pools_with_apy = <<>>
     THEN /\ stdout' = Append(stdout, "no_nonzero_apy")
          /\ pc' = "return"
          /\ UNCHANGED exc
     ELSE IF SummaryRaises(all_pools_with_apy)
     THEN /\ stdout' = Append(stdout, "summary_partial")
          /\ exc' = "TypeError"
          /\ pc' = "except"
     ELSE /\ stdout' = Append(stdout, "summary")
          /\ pc' = "return"
          /\ UNCHANGED exc
  /\ UNCHANGED <<gaugesFile, poolsFile, entry, min_apy, min_usd_total, opened,
                 data, all_pools_data, pool_usd_lookup,
                 pool_extra_rewards_lookup, high_apy_pools, all_pools_with_apy,
                 result, outputFile, exitStatus>>

\* line 138
ReturnPools ==
  /\ pc = "return"
  /\ result' = high_apy_pools
  /\ pc' = "returned"
  /\ UNCHANGED <<gaugesFile, poolsFile, entry, min_apy, min_usd_total, opened,
                 data, all_pools_data, pool_usd_lookup,
                 pool_extra_rewards_lookup, high_apy_pools, all_pools_with_apy,
                 exc, stdout, outputFile, exitStatus>>

\* lines 140-148
HandleException ==
  /\ pc = "except"
  /\ stdout' = Append(stdout,
                      CASE exc = "FileNotFoundError" -> "err_not_found"
                        [] exc = "JSONDecodeError" -> "err_invalid_json"
                        [] OTHER -> "err_other")
  /\ result' = <<>>
  /\ pc' = "returned"
  /\ UNCHANGED <<gaugesFile, poolsFile, entry, min_apy, min_usd_total, opened,
                 data, all_pools_data, pool_usd_lookup,
                 pool_extra_rewards_lookup, high_apy_pools, all_pools_with_apy,
                 exc, outputFile, exitStatus>>

(***************************************************************************)
(* main after the call                                                     *)
(***************************************************************************)
\* line 195, print_results (lines 150-181): a TypeError raised while an
\* entry is formatted is caught nowhere and ends the interpreter with
\* status 1
PrintResults ==
  /\ pc = "returned"
  /\ entry = "main"
  /\ IF result = <<>>
     THEN /\ stdout' = Append(stdout, "no_pools_found")
          /\ pc' = "persist"
          /\ UNCHANGED exitStatus
     ELSE IF ReportRaises(result)
     THEN /\ stdout' = Append(stdout, "report_partial")
          /\ pc' = "crashed"
          /\ exitStatus' = 1
     ELSE /\ stdout' = Append(stdout, "report")
          /\ pc' = "persist"
          /\ UNCHANGED exitStatus
  /\ UNCHANGED <<gaugesFile, poolsFile, entry, min_apy, min_usd_total, opened,
                 data, all_pools_data, pool_usd_lookup,
                 pool_extra_rewards_lookup, high_apy_pools, all_pools_with_apy,
                 exc, result, outputFile>>

\* lines 198-205: the write succeeds or fails; a failure is caught
SaveResults ==
  /\ pc = "persist"
  /\ result # <<>>
  /\ \E ok \in BOOLEAN :
       IF ok
       THEN /\ outputFile' = result
            /\ stdout' = Append(stdout, "saved")
       ELSE /\ stdout' = Append(stdout, "err_saving")
            /\ UNCHANGED outputFile
  /\ opened' = opened \cup {"output"}
  /\ pc' = "exit"
  /\ UNCHANGED <<gaugesFile, poolsFile, entry, min_apy, min_usd_total, data,
                 all_pools_data, pool_usd_lookup, pool_extra_rewards_lookup,
                 high_apy_pools, all_pools_with_apy, exc, result, exitStatus>>

\* main returns (line 198 with an empty list, or after the persist step)
MainExit ==
  /\ \/ pc = "exit"
     \/ pc = "persist" /\ result = <<>>
  /\ pc' = "done"
  /\ exitStatus' = 0
  /\ UNCHANGED <<gaugesFile, poolsFile, entry, min_apy, min_usd_total, opened,
                 data, all_pools_data, pool_usd_lookup,
                 pool_extra_rewards_lookup, high_apy_pools, all_pools_with_apy,
                 exc, result, stdout, outputFile>>

Next ==
  \/ MainCall
  \/ LoadGauges
  \/ LoadPools
  \/ BuildLookups
  \/ ScoreAll
  \/ SortPools
  \/ PrintSummary
  \/ ReturnPools
  \/ HandleException
  \/ PrintResults
  \/ SaveResults
  \/ MainExit

Spec == Init /\ [][Next]_vars

TypeOK == pc \in {"main", "load_gauges", "load_pools", "build_lookups",
                  "score", "sort", "summary", "return", "except", "returned",
                  "persist", "exit", "crashed", "done"}

(***************************************************************************)
(* What the documents say, stated without the program's operators: the     *)
(* vocabulary of the properties below.                                     *)
(***************************************************************************)
CasePairs == {<<"A", "a">>, <<"B", "b">>, <<"C", "c">>, <<"E", "e">>,
              <<"H", "h">>, <<"T", "t">>}
SameLetter(x, y) == x = y \/ <<x, y>> \in CasePairs \/ <<y, x>> \in CasePairs
SameText(a, b) ==
  Len(a) = Len(b) /\ \A i \in 1..Len(a) : SameLetter(a[i], b[i])
Mentions(text, word) ==
  \E k \in 1..Len(text) :
    /\ k + Len(word) - 1 <= Len(text)
    /\ \A i \in 1..Len(word) : SameLetter(text[k + i - 1], word[i])

FileIsInvalid(file) ==
  \/ ~file.exists
  \/ ~file.valid
  \/ "success" \notin DOMAIN file.json
  \/ file.json.success # TRUE
  \/ "data" \notin DOMAIN file.json
BothLoaded ==
  /\ ~FileIsInvalid(gaugesFile)
  /\ ~FileIsInvalid(poolsFile)
  /\ "poolData" \in DOMAIN poolsFile.json.data
Items == gaugesFile.json.data
PoolRecs == poolsFile.json.data.poolData

Matches(addr) ==
  {i \in 1..Len(PoolRecs) : SameText(PoolRecs[i].address, addr)}
LastMatch(addr) ==
  PoolRecs[CHOOSE i \in Matches(addr) : \A j \in Matches(addr) : j <= i]
RECURSIVE RewardSum(_)
RewardSum(rewards) ==
  IF rewards = <<>> THEN 0
  ELSE (IF "apy" \in DOMAIN Head(rewards) THEN Head(rewards).apy ELSE 0)
         + RewardSum(Tail(rewards))
JoinedUsd(addr) ==
  IF Matches(addr) = {} \/ "usdTotal" \notin DOMAIN LastMatch(addr) THEN 0
  ELSE LastMatch(addr).usdTotal
JoinedExtra(addr) ==
  IF Matches(addr) = {} \/ "gaugeRewards" \notin DOMAIN LastMatch(addr) THEN 0
  ELSE RewardSum(LastMatch(addr).gaugeRewards)

\* qualification conditions 1-4 of a gauge record
Cond1to4(info) ==
  /\ "isPool" \in DOMAIN info /\ info.isPool = TRUE
  /\ "gaugeCrvApy" \in DOMAIN info /\ Len(info.gaugeCrvApy) = 2
  /\ ~("hasNoCrv" \in DOMAIN info /\ info.hasNoCrv = TRUE)
  /\ "type" \in DOMAIN info /\ info.type = "stable"
CleanName(name) ==
  ~Mentions(name, <<"b", "t", "c">>) /\ ~Mentions(name, <<"e", "t", "h">>)
\* all six qualification conditions of an item of the gauges document
Qualifies(item) ==
  /\ Cond1to4(item[2])
  /\ CleanName(item[1])
  /\ JoinedUsd(item[2].swap) >= min_usd_total
OrZero(v) == IF v = <<>> THEN 0 ELSE v[1]
ItemTotal(item, i) == OrZero(item[2].gaugeCrvApy[i]) + JoinedExtra(item[2].swap)
ItemAbove(item, threshold) ==
  ItemTotal(item, 1) > threshold \/ ItemTotal(item, 2) > threshold
HasNull(pair) == pair[1] = <<>> \/ pair[2] = <<>>

InList(list, name) == \E i \in 1..Len(list) : list[i].name = name
PassesFilter(item) == Qualifies(item) /\ ItemAbove(item, min_apy)
InDiagnostics(item) == Qualifies(item) /\ ItemAbove(item, 0)
PositionOf(name) == CHOOSE j \in 1..Len(Items) : Items[j][1] = name
Scored == pc \in {"sort", "summary", "return", "except", "returned",
                  "persist", "exit", "crashed", "done"}
Returned == pc \in {"returned", "persist", "exit", "crashed", "done"}
NameSet(list) == {list[i].name : i \in 1..Len(list)}
NoDuplicates(list) == Cardinality(NameSet(list)) = Len(list)
ItemNames(P(_)) == {Items[j][1] : j \in {k \in 1..Len(Items) : P(Items[k])}}
ItemOf(e) == <<e.name, e.pool_info>>
IsItem(e) == \E j \in 1..Len(Items) : Items[j] = ItemOf(e)

(***************************************************************************)
(* C1: every entry of the returned result set is an item of the gauges     *)
(* document that satisfies the whole filter predicate: isPool true,        *)
(* hasNoCrv not true, type "stable", no "btc"/"eth" in its name in any     *)
(* letter case, joined usdTotal >= minUsdTotal, and one of its two totals  *)
(* strictly greater than minApy.                                           *)
(***************************************************************************)
C1_ResultSatisfiesFilter ==
  \A i \in 1..Len(result) :
    LET e == result[i]
    IN /\ IsItem(e)
       /\ e.pool_info.isPool = TRUE
       /\ ~("hasNoCrv" \in DOMAIN e.pool_info /\ e.pool_info.hasNoCrv = TRUE)
       /\ e.pool_info.type = "stable"
       /\ CleanName(e.name)
       /\ JoinedUsd(e.pool_info.swap) >= min_usd_total
       /\ (e.total_apy_range[1] > min_apy \/ e.total_apy_range[2] > min_apy)
       /\ ~(ItemTotal(ItemOf(e), 1) = min_apy
              /\ ItemTotal(ItemOf(e), 2) = min_apy)

\* a run returned a non-empty result and left out a qualifying item whose
\* two totals are both exactly minApy
C1_Witness ==
  /\ pc = "returned"
  /\ BothLoaded
  /\ result # <<>>
  /\ \E j \in 1..Len(Items) :
       /\ Qualifies(Items[j])
       /\ ItemTotal(Items[j], 1) = min_apy
       /\ ItemTotal(Items[j], 2) = min_apy
       /\ ~InList(result, Items[j][1])

(***************************************************************************)
(* C2: once the function has returned for two well-formed documents, every *)
(* item of the gauges document that satisfies the six qualification        *)
(* conditions and has a total above minApy (null counted as 0) is in the   *)
(* result set.                                                             *)
(***************************************************************************)
C2_EveryPassingItemReturned ==
  (Returned /\ BothLoaded) =>
    \A j \in 1..Len(Items) :
      PassesFilter(Items[j]) => InList(result, Items[j][1])

(***************************************************************************)
(* C3: in every entry of the result set, total_apy_range[i] is             *)
(* gaugeCrvApy[i] (0 when null) plus extra_rewards_apy, and max_apy is the *)
(* larger of the two totals.                                               *)
(***************************************************************************)
C3_TotalsAndMax ==
  \A i \in 1..Len(result) :
    LET e == result[i]
        t == e.total_apy_range
    IN /\ Len(t) = 2
       /\ t[1] = OrZero(e.gaugeCrvApy[1]) + e.extra_rewards_apy
       /\ t[2] = OrZero(e.gaugeCrvApy[2]) + e.extra_rewards_apy
       /\ e.max_apy >= t[1] /\ e.max_apy >= t[2]
       /\ e.max_apy \in {t[1], t[2]}

\* a returned entry has a null in its pair, a non-zero extra yield and two
\* different totals
C3_Witness ==
  /\ Returned
  /\ \E i \in 1..Len(result) :
       /\ HasNull(result[i].gaugeCrvApy)
       /\ result[i].extra_rewards_apy # 0
       /\ result[i].total_apy_range[1] # result[i].total_apy_range[2]

(***************************************************************************)
(* C4: the returned result set is ordered by max_apy descending, entries   *)
(* of equal max_apy are in the order of their keys in the gauges document, *)
(* and the returned list is a permutation of the entries that passed the   *)
(* filter (none lost, none duplicated).                                    *)
(***************************************************************************)
C4_SortedStablePermutation ==
  (Returned /\ BothLoaded) =>
    /\ NoDuplicates(result)
    /\ NameSet(result) = ItemNames(PassesFilter)
    /\ \A i, j \in 1..Len(result) :
         i < j =>
           /\ result[i].max_apy >= result[j].max_apy
           /\ result[i].max_apy = result[j].max_apy =>
                PositionOf(result[i].name) < PositionOf(result[j].name)

(***************************************************************************)
(* C5: if either document is missing, is not valid JSON, has no truthy     *)
(* success flag or has no data key, the result is the empty list and an    *)
(* error has been printed by the time the function returns; no exception   *)
(* is pending after the return; and an invalid gauges document means the   *)
(* pools document is never opened.                                         *)
(***************************************************************************)
ErrorTags == {"err_gauges_structure", "err_pools_structure",
              "err_not_found", "err_invalid_json", "err_other"}
C5_InvalidDocumentEmptyResult ==
  /\ (FileIsInvalid(gaugesFile) \/ FileIsInvalid(poolsFile)) =>
       /\ result = <<>>
       /\ Returned =>
            /\ \E k \in 1..Len(stdout) : stdout[k] \in ErrorTags
            /\ pc # "crashed"
            /\ exc \in {"none", "FileNotFoundError", "JSONDecodeError"}
  /\ FileIsInvalid(gaugesFile) => "pools" \notin opened

\* the function returned for a valid gauges document with a scorable item
\* and an invalid pools document
C5_Witness ==
  /\ pc = "returned"
  /\ ~FileIsInvalid(gaugesFile)
  /\ FileIsInvalid(poolsFile)
  /\ \E j \in 1..Len(Items) : Cond1to4(Items[j][2]) /\ CleanName(Items[j][1])
  /\ "gauges" \in opened
  /\ result = <<>>

(***************************************************************************)
(* C6 as stated: for every threshold minUsdTotal, an item of the gauges    *)
(* document whose swap address matches no address of the pools document    *)
(* (letter case ignored) is not in the result set.                         *)
(***************************************************************************)
Unmatched(item) == Matches(item[2].swap) = {}
C6_UnmatchedExcluded ==
  (Returned /\ BothLoaded) =>
    \A j \in 1..Len(Items) :
      Unmatched(Items[j]) => ~InList(result, Items[j][1])

(***************************************************************************)
(* C6 amended: for every threshold minUsdTotal > 0, an unmatched item is   *)
(* in neither the result set nor the diagnostic list (so nothing of it is  *)
(* ever formatted), and a gauges document all of whose items are unmatched *)
(* is processed without any exception.                                     *)
(***************************************************************************)
C6_UnmatchedExcludedPositive ==
  (BothLoaded /\ min_usd_total > 0) =>
    /\ \A j \in 1..Len(Items) :
         Unmatched(Items[j]) =>
           /\ ~InList(result, Items[j][1])
           /\ ~InList(high_apy_pools, Items[j][1])
           /\ ~InList(all_pools_with_apy, Items[j][1])
    /\ (\A j \in 1..Len(Items) : Unmatched(Items[j])) => exc = "none"

\* the function returned without exception for a positive threshold and an
\* unmatched item that meets every other condition, has a null in its pair
\* and a yield above minApy
C6_Witness ==
  /\ pc = "returned"
  /\ BothLoaded
  /\ min_usd_total > 0
  /\ exc = "none"
  /\ \E j \in 1..Len(Items) :
       /\ Unmatched(Items[j])
       /\ Cond1to4(Items[j][2])
       /\ CleanName(Items[j][1])
       /\ HasNull(Items[j][2].gaugeCrvApy)
       /\ ItemAbove(Items[j], min_apy)

(***************************************************************************)
(* C7: a run of main ends with exit status 0.                              *)
(***************************************************************************)
C7_MainExitsZero ==
  (entry = "main" /\ pc \in {"done", "crashed"}) => exitStatus = 0

C9_JoinUsesLastMatch ==
  \A i \in 1..Len(result) :
    /\ result[i].usd_total = JoinedUsd(result[i].pool_info.swap)
    /\ result[i].extra_rewards_apy = JoinedExtra(result[i].pool_info.swap)

\* a returned entry's address matches two different records of the pools
\* document, in an address spelled with another letter case
C9_Witness ==
  /\ Returned
  /\ \E i \in 1..Len(result) :
       LET m == Matches(result[i].pool_info.swap)
       IN /\ \E a, b \in m : a < b /\ PoolRecs[a] # PoolRecs[b]
          /\ \E a \in m : PoolRecs[a].address # result[i].pool_info.swap

(***************************************************************************)
(* C10: when a run of main has ended, the persist step was attempted       *)
(* exactly if the result set is non-empty, and only after the report was   *)
(* printed; a failed write leaves the run ending normally with the result  *)
(* set as the function returned it.                                        *)
(***************************************************************************)
TagIndex(tag) == CHOOSE k \in 1..Len(stdout) : stdout[k] = tag
Printed(tag) == \E k \in 1..Len(stdout) : stdout[k] = tag
C10_PersistIffNonEmpty ==
  /\ (entry = "main" /\ pc \in {"done", "crashed"}) =>
        ("output" \in opened <=> result # <<>>)
  /\ "output" \in opened =>
        /\ Printed("report")
        /\ \A t \in {"saved", "err_saving"} :
             Printed(t) => TagIndex("report") < TagIndex(t)
  /\ (Printed("err_saving") /\ pc = "done") =>
        /\ exitStatus = 0
        /\ result = high_apy_pools
        /\ outputFile = <<>>
====
